---- MODULE Spec2Model ----
(***************************************************************************)
(* Model of promisifyChildProcess (src/src/index.ts): the adapter that     *)
(* wraps a live child process handle into a promise, captures stdout and   *)
(* stderr under the maxBuffer policy and classifies the termination.       *)
(*                                                                         *)
(* Encoding of JavaScript values:                                          *)
(*   - exit codes and signals are strings ("0", "2", "SIGINT"); the        *)
(*     string "null" stands for null and "undefined" for undefined;        *)
(*   - a Buffer is a sequence of bytes; the k-th byte a stream emits is    *)
(*     labelled k (stdout) or -k (stderr), so that order, gaps and the     *)
(*     stream of origin of every captured byte are observable;             *)
(*   - a captured output value is a record [kind, bytes] where kind is     *)
(*     "undefined", "buffer" or "string".                                  *)
(***************************************************************************)
EXTENDS Integers, Sequences, FiniteSets, TLC

\* ---------------------------------------------------------------- bounds
MaxBufferOpt == 2      \* largest maxBuffer option explored
MaxChunkLen == 2       \* longest chunk a data event carries
MaxEvents == 3         \* notifications the handle delivers in one run

\* ------------------------------------------------------ program constants
DefaultMaxBuffer == 1024 * 1024

Null == "null"
Undefined == "undefined"

Encodings == {Undefined, Null, "utf8", "buffer"}
KillSignals == {Undefined, "SIGKILL"}
ExitCodes == {"0", "2"}
Signals == {"SIGTERM", "SIGINT"}
\* errors the handle may emit: one that carries its own code, one that does not
EmittedErrors ==
    { [message |-> "spawn ENOENT", code |-> "ENOENT"],
      [message |-> "channel closed", code |-> Undefined] }

NoError == [message |-> Undefined, code |-> Undefined]
NoChunks == [present |-> FALSE, list |-> << >>]
EmptyChunks == [present |-> TRUE, list |-> << >>]
AbsentOutput == [kind |-> Undefined, bytes |-> << >>]
PendingValue ==
    [message |-> Undefined, code |-> Undefined, signal |-> Undefined,
     killed |-> FALSE, stdout |-> AbsentOutput, stderr |-> AbsentOutput]

PendingPromise == [state |-> "pending", value |-> PendingValue]

RunningProcess == [phase |-> "running", sent |-> Null, closedWith |-> Null]

VARIABLES
    options,        \* [encoding, maxBufferGiven, maxBuffer, killSignal]
    child,          \* [stdout, stderr]: which streams exist on the handle
    bufferSize,     \* let bufferSize
    error,          \* let error
    stdoutChunks,   \* const stdoutChunks
    stderrChunks,   \* const stderrChunks
    listeners,      \* listeners the adapter has registered on the handle
    promise,        \* [state, value] of the internal promise
    killCalls,      \* signals passed to child.kill by the adapter, in order
    settleCalls,    \* number of calls of resolve or reject
    overflowed,     \* some data event exceeded the remaining budget
    emitted,        \* [stdout, stderr]: bytes emitted so far by each stream
    received,       \* [stdout, stderr]: bytes handed to the capture handlers
    lastEvent,      \* the notification delivered by the last step
    nEvents,        \* notifications delivered so far
    path,           \* "adapter" (promisifyChildProcess) or "callback" (exec)
    objects,        \* the objects: id -> [proto, own properties]
    returned,       \* the id of the object the call returned
    handleCalls,    \* the methods of the handle the adapter has called
    call,           \* [primitive, thrown]: how the wrapping call ended
    chain,          \* [handler, derived]: a handler registered through finally
    proc            \* [phase, sent, closedWith]: the process, the signal its
                    \* caller sent and the signal its close reported

vars == << options, child, bufferSize, error, stdoutChunks, stderrChunks,
           listeners, promise, killCalls, settleCalls, overflowed, emitted,
           received, lastEvent, nEvents, path, objects, returned, handleCalls,
           call, chain, proc >>

\* ------------------------------------------------------------- helpers
Max(a, b) == IF a >= b THEN a ELSE b
Min(a, b) == IF a <= b THEN a ELSE b

RECURSIVE Concat(_)
\* Buffer.concat(chunks)
Concat(chunks) ==
    IF chunks = << >> THEN << >>
    ELSE Head(chunks) \o Concat(Tail(chunks))

joinChunks_emptyWhenAbsent(chunks, encoding) ==
    IF encoding # Undefined /\ encoding # Null /\ encoding # "buffer"
    THEN [kind |-> "string", bytes |-> Concat(chunks.list)]
    ELSE [kind |-> "buffer", bytes |-> Concat(chunks.list)]

joinChunks_anyEncodingIsText(chunks, encoding) ==
    IF ~chunks.present THEN AbsentOutput
    ELSE IF encoding # Undefined /\ encoding # Null
         THEN [kind |-> "string", bytes |-> Concat(chunks.list)]
         ELSE [kind |-> "buffer", bytes |-> Concat(chunks.list)]

\* joinChunks(chunks, encoding)
joinChunks(chunks, encoding) ==
    IF ~chunks.present THEN AbsentOutput
    ELSE IF encoding # Undefined /\ encoding # Null /\ encoding # "buffer"
         THEN [kind |-> "string", bytes |-> Concat(chunks.list)]
         ELSE [kind |-> "buffer", bytes |-> Concat(chunks.list)]

captureStdio_always(opts) == TRUE

\* const captureStdio = encoding != null || options?.maxBuffer != null
captureStdio(opts) ==
    (opts.encoding # Undefined /\ opts.encoding # Null) \/ opts.maxBufferGiven

maxBuffer_orDefault(opts) ==
    IF opts.maxBufferGiven /\ opts.maxBuffer # 0
    THEN opts.maxBuffer ELSE DefaultMaxBuffer

\* const maxBuffer = options?.maxBuffer ?? 1024 * 1024
maxBuffer(opts) ==
    IF opts.maxBufferGiven THEN opts.maxBuffer ELSE DefaultMaxBuffer

KillSignalOf_alwaysSigterm(opts) == "SIGTERM"

\* killSignal ?? 'SIGTERM'
KillSignalOf(opts) ==
    IF opts.killSignal # Undefined /\ opts.killSignal # Null
    THEN opts.killSignal ELSE "SIGTERM"

\* the bytes of the chunk of length len a stream emits after having emitted n
\* (sign is 1 for stdout and -1 for stderr)
ChunkBytes(sign, n, len) == [i \in 1..len |-> sign * (n + i)]

\* data.subarray(0, remaining)
Subarray(data, remaining) == SubSeq(data, 1, Min(remaining, Len(data)))

NextBufferSize_uncapped(size, cap, data) == size + Len(data)

\* the new value of bufferSize after a chunk: bufferSize += Math.min(remaining, data.length)
NextBufferSize(size, cap, data) ==
    size + Min(Max(0, cap - size), Len(data))

StoredPart_whole(size, cap, data) == data

StoredPart_firstOnly(size, cap, data) ==
    IF size = 0 THEN Subarray(data, Max(0, cap - size)) ELSE << >>

StoredPart_tail(size, cap, data) ==
    LET remaining == Min(Max(0, cap - size), Len(data)) IN
    SubSeq(data, Len(data) - remaining + 1, Len(data))

StoredPart_drop(size, cap, data) ==
    IF Len(data) > Max(0, cap - size) THEN << >> ELSE data

\* the part of a chunk that capture stores
StoredPart(size, cap, data) ==
    IF Len(data) > Max(0, cap - size)
    THEN Subarray(data, Max(0, cap - size))
    ELSE data

Overflows_whenFull(size, cap, data) == size + Len(data) >= cap

Overflows_anyData(size, cap, data) == Len(data) > 0

Overflows_once(size, cap, data) ==
    Len(data) > Max(0, cap - size) /\ size < cap

Overflows_ge(size, cap, data) == Len(data) >= Max(0, cap - size)

\* the test of capture: data.length > remaining
Overflows(size, cap, data) == Len(data) > Max(0, cap - size)

RemoveListeners_keepData(l) ==
    [error |-> FALSE, close |-> FALSE, exit |-> l.exit,
     stdoutData |-> l.stdoutData, stderrData |-> l.stderrData]

RemoveListeners_keep(l) == l

\* the removeListener calls of done
RemoveListeners(l) ==
    [error |-> FALSE, close |-> FALSE, exit |-> l.exit,
     stdoutData |-> FALSE, stderrData |-> FALSE]

NoListeners ==
    [error |-> FALSE, close |-> FALSE, exit |-> FALSE,
     stdoutData |-> FALSE, stderrData |-> FALSE]

RegisteredListeners_withExit(opts, c) ==
    [error |-> TRUE, close |-> TRUE, exit |-> TRUE,
     stdoutData |-> captureStdio(opts) /\ c.stdout,
     stderrData |-> captureStdio(opts) /\ c.stderr]

\* the listeners promisifyChildProcess registers: 'data' on each captured
\* stream, 'error' and 'close' on the child, and none for 'exit'
RegisteredListeners(opts, c) ==
    [error |-> TRUE, close |-> TRUE, exit |-> FALSE,
     stdoutData |-> captureStdio(opts) /\ c.stdout,
     stderrData |-> captureStdio(opts) /\ c.stderr]

\* resolve / reject of the internal promise: only the first call settles it
Settle(p, state, value) ==
    IF p.state = "pending" THEN [state |-> state, value |-> value] ELSE p

IsFailure_anyCode(err, code, signal) ==
    err # NoError \/ code # Null \/ signal # Null

IsFailure_signalOnly(err, code, signal) ==
    err # NoError \/ signal # Null

IsFailure_ignoreSignal(err, code, signal) ==
    err # NoError \/ (code # Null /\ code # "0")

IsFailure_ignoreError(err, code, signal) ==
    (code # Null /\ code # "0") \/ signal # Null

\* the test of done: error || (code != null && code != 0) || signal != null
IsFailure(err, code, signal) ==
    \/ err # NoError
    \/ (code # Null /\ code # "0")
    \/ signal # Null

FailureMessage_ignoreError(err, code, signal) ==
    IF signal # Null THEN "Process was killed with " \o signal
    ELSE "Process exited with code " \o code

FailureMessage_swapped(err, code, signal) ==
    IF err # NoError THEN err.message
    ELSE IF signal # Null THEN "Process exited with code " \o code
    ELSE "Process was killed with " \o signal

FailureMessage_signalOnly(err, code, signal) ==
    IF err # NoError THEN err.message
    ELSE "Process was killed with " \o signal

\* the message of the error done rejects with
FailureMessage(err, code, signal) ==
    IF err # NoError THEN err.message
    ELSE IF signal # Null THEN "Process was killed with " \o signal
    ELSE "Process exited with code " \o code

AssignedKeys_outputOnly == {"stdout", "stderr"}

\* the keys of the object done assigns to the error it rejects with
AssignedKeys == {"code", "signal", "killed", "stdout", "stderr"}

\* the own properties of the error before the assignment: an emitted error
\* may carry a code of its own, new Error(message) does not
ErrorOwnProps(err) ==
    {"message", "stack"} \cup (IF err.code # Undefined THEN {"code"} ELSE {})

\* the own properties of Object.assign(error || new Error(...), {...})
RejectionProps(err) == ErrorOwnProps(err) \cup AssignedKeys

\* isChildProcessError(error), for an error with the given own properties:
\* error instanceof Error && 'code' in error && 'signal' in error
isChildProcessError(isError, props) ==
    isError /\ "code" \in props /\ "signal" \in props

FailureValue_noSignal(err, code, signal, out, errOut) ==
    [message |-> FailureMessage(err, code, signal),
     code |-> code, signal |-> Null, killed |-> (signal # Null),
     stdout |-> out, stderr |-> errOut,
     own |-> RejectionProps(err)]

FailureValue_alwaysKilled(err, code, signal, out, errOut) ==
    [message |-> FailureMessage(err, code, signal),
     code |-> code, signal |-> signal, killed |-> TRUE,
     stdout |-> out, stderr |-> errOut,
     own |-> RejectionProps(err)]

FailureValue_dropOutput(err, code, signal, out, errOut) ==
    [message |-> FailureMessage(err, code, signal),
     code |-> code, signal |-> signal, killed |-> (signal # Null),
     stdout |-> AbsentOutput, stderr |-> AbsentOutput,
     own |-> RejectionProps(err)]

\* the value done rejects with: Object.assign(error || new Error(...), {...})
FailureValue(err, code, signal, out, errOut) ==
    [message |-> FailureMessage(err, code, signal),
     code |-> code, signal |-> signal, killed |-> (signal # Null),
     stdout |-> out, stderr |-> errOut,
     own |-> RejectionProps(err)]

\* the value done resolves with
SuccessValue(code, signal, out, errOut) ==
    [message |-> Undefined, code |-> code, signal |-> signal,
     killed |-> FALSE, stdout |-> out, stderr |-> errOut]

\* ------------------------------------------------------------- objects
PromiseMethods == {"then", "catch", "finally"}
HandleOwnProps == {"stdin", "stdout", "stderr", "pid"}
HandleProtoProps == {"kill", "on", "removeListener"}

\* the handle as the process-creation primitive returns it, and its prototype
HandleHeap(c) ==
    [id \in {"child", "ChildProcess.prototype"} |->
        IF id = "child"
        THEN [proto |-> "ChildProcess.prototype",
              own |-> [n \in HandleOwnProps |->
                         IF n = "stdout" /\ ~c.stdout THEN Null
                         ELSE IF n = "stderr" /\ ~c.stderr THEN Null
                         ELSE "child." \o n]]
        ELSE [proto |-> Null,
              own |-> [n \in HandleProtoProps |-> "ChildProcess.prototype." \o n]]]

BoundMethods_finallyIsThen ==
    [n \in PromiseMethods |->
        IF n = "finally" THEN "promise.then" ELSE "promise." \o n]

\* then / catch / finally bound to the internal promise
BoundMethods == [n \in PromiseMethods |-> "promise." \o n]

ObjectCreate_assignToProto(heap, id, proto, props) ==
    (id :> [proto |-> proto, own |-> [n \in {} |-> Null]])
    @@ [heap EXCEPT ![proto].own = props @@ @]

\* Object.create(proto, props): a new object id with the given prototype
ObjectCreate(heap, id, proto, props) ==
    (id :> [proto |-> proto, own |-> props]) @@ heap

RECURSIVE Get(_, _, _)
\* property lookup along the prototype chain
Get(heap, id, name) ==
    IF id = Null THEN Undefined
    ELSE IF name \in DOMAIN heap[id].own THEN heap[id].own[name]
    ELSE Get(heap, heap[id].proto, name)

\* ------------------------------------------ handlers chained on the promise
\* how an asynchronous handler may end
HandlerResults == {"fulfilled", "rejected"}

\* the rejection of a handler that failed
HandlerFailure == [PendingValue EXCEPT !.message = "finally handler failed"]

\* whether a handler registered through the bound method is called for the
\* promise p: finally calls it on any settlement, then on fulfilment only,
\* catch on rejection only
CallsHandler(method, p) ==
    \/ method = "promise.finally" /\ p.state # "pending"
    \/ method = "promise.then" /\ p.state = "resolved"
    \/ method = "promise.catch" /\ p.state = "rejected"

\* the promise the bound method returned, once the handler has ended: finally
\* passes the outcome of p on unless the handler failed; then and catch
\* fulfil with what the handler returned
DerivedOutcome(method, p, result) ==
    IF result = "rejected" THEN [state |-> "rejected", value |-> HandlerFailure]
    ELSE IF method = "promise.finally" THEN p
    ELSE [state |-> "resolved", value |-> PendingValue]

\* ---------------------------------------------------- promisifyExecMethod
\* what the completion callback of exec / execFile may report
NoExecError == [message |-> Undefined, code |-> Undefined, signal |-> Undefined,
                killed |-> FALSE]
ExecErrors ==
    { [message |-> "Command failed", code |-> "2", signal |-> Null, killed |-> FALSE],
      [message |-> "Command failed", code |-> Null, signal |-> "SIGTERM",
       killed |-> TRUE] }
ExecStdouts == { [kind |-> "string", bytes |-> << >>], [kind |-> "buffer", bytes |-> << 1 >>] }
ExecStderrs == { [kind |-> "string", bytes |-> << >>], [kind |-> "buffer", bytes |-> << -1 >>] }

\* reject(Object.assign(err, { stdout, stderr }))
ExecFailureValue(err, stdout, stderr) ==
    [message |-> err.message, code |-> err.code, signal |-> err.signal,
     killed |-> err.killed, stdout |-> stdout, stderr |-> stderr]

ExecSuccessValue_callbackCode(stdout, stderr) ==
    [message |-> Undefined, code |-> Null, signal |-> Null, killed |-> FALSE,
     stdout |-> stdout, stderr |-> stderr]

\* resolve({ code: 0, signal: null, killed: false, stdout, stderr })
ExecSuccessValue(stdout, stderr) ==
    [message |-> Undefined, code |-> "0", signal |-> Null, killed |-> FALSE,
     stdout |-> stdout, stderr |-> stderr]

\* how the call of the primitive inside the promise executor may end: it
\* returns the child, returns nothing, or throws
PrimitiveOutcomes == {"returns", "returnsNothing", "throws"}

\* the error a throwing primitive raises
PrimitiveFailure ==
    [message |-> "The argument 'file' must be of type string",
     code |-> "ERR_INVALID_ARG_TYPE",
     signal |-> Undefined, killed |-> FALSE,
     stdout |-> AbsentOutput, stderr |-> AbsentOutput]

\* the internal promise when the executor is left: a throw of the primitive
\* inside the executor rejects it
ExecPromise(primitive) ==
    IF primitive = "throws"
    THEN [state |-> "rejected", value |-> PrimitiveFailure]
    ELSE PendingPromise

\* if (!child) throw new Error('unexpected error: child has not been initialized')
ExecThrown(primitive) ==
    IF primitive = "returns" THEN Undefined
    ELSE "unexpected error: child has not been initialized"

\* ------------------------------------------------------------------ Init
OptionSet ==
    [encoding : Encodings, maxBufferGiven : {TRUE}, maxBuffer : 0..MaxBufferOpt,
     killSignal : KillSignals]
    \cup
    [encoding : Encodings, maxBufferGiven : {FALSE}, maxBuffer : {0},
     killSignal : KillSignals]

\* the state promisifyChildProcess(child, options) leaves behind; spawn and
\* fork hand their child and options to it unchanged
Init ==
    /\ path = "adapter"
    /\ call = [primitive |-> "returns", thrown |-> Undefined]
    /\ chain = [handler |-> "idle", derived |-> PendingPromise]
    /\ proc = RunningProcess
    /\ options \in OptionSet
    /\ child \in [stdout : BOOLEAN, stderr : BOOLEAN]
    /\ objects = ObjectCreate(HandleHeap(child), "returned", "child", BoundMethods)
    /\ returned = "returned"
    /\ handleCalls = {"on"}
    /\ bufferSize = 0
    /\ error = NoError
    /\ stdoutChunks = IF captureStdio(options) /\ child.stdout
                      THEN EmptyChunks ELSE NoChunks
    /\ stderrChunks = IF captureStdio(options) /\ child.stderr
                      THEN EmptyChunks ELSE NoChunks
    /\ listeners = RegisteredListeners(options, child)
    /\ promise = PendingPromise
    /\ killCalls = << >>
    /\ settleCalls = 0
    /\ overflowed = FALSE
    /\ emitted = [stdout |-> 0, stderr |-> 0]
    /\ received = [stdout |-> << >>, stderr |-> << >>]
    /\ lastEvent = [type |-> "none", code |-> Null, signal |-> Null, err |-> NoError]
    /\ nEvents = 0

\* the state a wrapper built by promisifyExecMethod (exec, execFile) leaves
\* behind once the primitive has returned its child: the adapter registers no
\* listener and keeps no buffer
InitExec ==
    /\ path = "callback"
    /\ call = [primitive |-> "returns", thrown |-> ExecThrown("returns")]
    /\ chain = [handler |-> "idle", derived |-> PendingPromise]
    /\ proc = RunningProcess
    /\ options \in { o \in OptionSet : ~o.maxBufferGiven /\ o.killSignal = Undefined
                                       /\ o.encoding \in {Undefined, "buffer"} }
    /\ child = [stdout |-> TRUE, stderr |-> TRUE]
    /\ objects = ObjectCreate(HandleHeap(child), "returned", "child", BoundMethods)
    /\ returned = "returned"
    /\ handleCalls = {}
    /\ bufferSize = 0
    /\ error = NoError
    /\ stdoutChunks = NoChunks
    /\ stderrChunks = NoChunks
    /\ listeners = NoListeners
    /\ promise = PendingPromise
    /\ killCalls = << >>
    /\ settleCalls = 0
    /\ overflowed = FALSE
    /\ emitted = [stdout |-> 0, stderr |-> 0]
    /\ received = [stdout |-> << >>, stderr |-> << >>]
    /\ lastEvent = [type |-> "none", code |-> Null, signal |-> Null, err |-> NoError]
    /\ nEvents = 0

\* the state a wrapper built by promisifyExecMethod leaves behind when the
\* primitive handed no child back: child is still undefined after the
\* executor, the wrapper throws and no object is returned
InitExecNoChild ==
    /\ path = "callback"
    /\ call \in { [primitive |-> o, thrown |-> ExecThrown(o)] :
                     o \in PrimitiveOutcomes \ {"returns"} }
    /\ chain = [handler |-> "idle", derived |-> PendingPromise]
    /\ proc = RunningProcess
    /\ options \in { o \in OptionSet : ~o.maxBufferGiven /\ o.killSignal = Undefined
                                       /\ o.encoding \in {Undefined, "buffer"} }
    /\ child = [stdout |-> FALSE, stderr |-> FALSE]
    /\ objects = [id \in {"ChildProcess.prototype"} |-> HandleHeap(child)[id]]
    /\ returned = Null
    /\ handleCalls = {}
    /\ bufferSize = 0
    /\ error = NoError
    /\ stdoutChunks = NoChunks
    /\ stderrChunks = NoChunks
    /\ listeners = NoListeners
    /\ promise = ExecPromise(call.primitive)
    /\ killCalls = << >>
    /\ settleCalls = IF call.primitive = "throws" THEN 1 ELSE 0
    /\ overflowed = FALSE
    /\ emitted = [stdout |-> 0, stderr |-> 0]
    /\ received = [stdout |-> << >>, stderr |-> << >>]
    /\ lastEvent = [type |-> "none", code |-> Null, signal |-> Null, err |-> NoError]
    /\ nEvents = 0

\* --------------------------------------------------------------- actions
\* the body of done(code, signal)
Done(err, code, signal) ==
    /\ listeners' = RemoveListeners(listeners)
    /\ handleCalls' = handleCalls \cup {"removeListener"}
    /\ settleCalls' = settleCalls + 1
    /\ promise' =
         IF IsFailure(err, code, signal)
         THEN Settle(promise, "rejected",
                     FailureValue(err, code, signal,
                                  joinChunks(stdoutChunks, options.encoding),
                                  joinChunks(stderrChunks, options.encoding)))
         ELSE Settle(promise, "resolved",
                     SuccessValue(code, signal,
                                  joinChunks(stdoutChunks, options.encoding),
                                  joinChunks(stderrChunks, options.encoding)))

\* the handler capture(chunks), applied to a chunk: the part common to both
\* streams (the push onto the stream's own chunks is in the stream's action)
Capture(data) ==
    LET cap == maxBuffer(options) IN
    /\ bufferSize' = NextBufferSize(bufferSize, cap, data)
    /\ IF Overflows(bufferSize, cap, data)
       THEN /\ error' = [message |-> "maxBuffer exceeded", code |-> Undefined]
            /\ killCalls' = Append(killCalls, KillSignalOf(options))
            /\ handleCalls' = handleCalls \cup {"kill"}
            /\ overflowed' = TRUE
       ELSE UNCHANGED << error, killCalls, handleCalls, overflowed >>

\* stdout emits a data event carrying len bytes
StdoutData(len) ==
    LET data == ChunkBytes(1, emitted.stdout, len) IN
    /\ nEvents < MaxEvents
    /\ child.stdout
    /\ nEvents' = nEvents + 1
    /\ emitted' = [emitted EXCEPT !.stdout = @ + len]
    /\ lastEvent' = [type |-> "stdout", code |-> Null, signal |-> Null,
                     err |-> NoError]
    /\ IF listeners.stdoutData
       THEN /\ Capture(data)
            /\ stdoutChunks' =
                 [stdoutChunks EXCEPT !.list =
                    Append(@, StoredPart(bufferSize, maxBuffer(options), data))]
            /\ received' = [received EXCEPT !.stdout = @ \o data]
       ELSE UNCHANGED << bufferSize, error, killCalls, handleCalls, overflowed,
                         stdoutChunks, received >>
    /\ UNCHANGED << call, chain, proc, path, objects, returned, options, child,
                    stderrChunks,
                    listeners, promise, settleCalls >>

\* stderr emits a data event carrying len bytes
StderrData(len) ==
    LET data == ChunkBytes(-1, emitted.stderr, len) IN
    /\ nEvents < MaxEvents
    /\ child.stderr
    /\ nEvents' = nEvents + 1
    /\ emitted' = [emitted EXCEPT !.stderr = @ + len]
    /\ lastEvent' = [type |-> "stderr", code |-> Null, signal |-> Null,
                     err |-> NoError]
    /\ IF listeners.stderrData
       THEN /\ Capture(data)
            /\ stderrChunks' =
                 [stderrChunks EXCEPT !.list =
                    Append(@, StoredPart(bufferSize, maxBuffer(options), data))]
            /\ received' = [received EXCEPT !.stderr = @ \o data]
       ELSE UNCHANGED << bufferSize, error, killCalls, handleCalls, overflowed,
                         stderrChunks, received >>
    /\ UNCHANGED << call, chain, proc, path, objects, returned, options, child,
                    stdoutChunks,
                    listeners, promise, settleCalls >>

\* the handle emits 'error': onError(err) when the listener is registered
OnError(err) ==
    /\ nEvents < MaxEvents
    /\ nEvents' = nEvents + 1
    /\ lastEvent' = [type |-> "error", code |-> Null, signal |-> Null, err |-> err]
    /\ IF listeners.error
       THEN /\ error' = err
            /\ Done(err, Null, Null)
       ELSE UNCHANGED << error, listeners, handleCalls, settleCalls, promise >>
    /\ UNCHANGED << call, chain, proc, path, objects, returned, options, child,
                    bufferSize,
                    stdoutChunks, stderrChunks, killCalls, overflowed, emitted,
                    received >>

\* the handle emits 'close' (code, signal): done(code, signal) when registered
CloseDelivery(code, signal) ==
    /\ nEvents' = nEvents + 1
    /\ lastEvent' = [type |-> "close", code |-> code, signal |-> signal,
                     err |-> NoError]
    /\ IF listeners.close
       THEN Done(error, code, signal)
       ELSE UNCHANGED << listeners, handleCalls, settleCalls, promise >>
    /\ UNCHANGED << call, chain, path, objects, returned, options, child,
                    bufferSize, error,
                    stdoutChunks, stderrChunks, killCalls, overflowed, emitted,
                    received >>

\* a 'close' of a handle that may close at any time and more than once
OnClose(code, signal) ==
    /\ nEvents < MaxEvents
    /\ CloseDelivery(code, signal)
    /\ UNCHANGED proc

\* the handle emits 'exit': the listeners registered for it are called (the
\* adapter registers none)
OnExit(code, signal) ==
    /\ nEvents < MaxEvents
    /\ nEvents' = nEvents + 1
    /\ lastEvent' = [type |-> "exit", code |-> code, signal |-> signal,
                     err |-> NoError]
    /\ IF listeners.exit
       THEN Done(error, code, signal)
       ELSE UNCHANGED << listeners, handleCalls, settleCalls, promise >>
    /\ UNCHANGED << call, chain, proc, path, objects, returned, options, child,
                    bufferSize, error, stdoutChunks, stderrChunks, killCalls,
                    overflowed, emitted, received >>

\* the completion callback promisifyExecMethod hands to exec / execFile
ExecCallback(err, stdout, stderr) ==
    /\ path = "callback"
    /\ nEvents < MaxEvents
    /\ nEvents' = nEvents + 1
    /\ lastEvent' = [type |-> "callback", code |-> err.code, signal |-> err.signal,
                     err |-> [message |-> err.message, code |-> err.code],
                     failed |-> (err # NoExecError), killed |-> err.killed,
                     stdout |-> stdout, stderr |-> stderr]
    /\ settleCalls' = settleCalls + 1
    /\ promise' =
         IF err # NoExecError
         THEN Settle(promise, "rejected", ExecFailureValue(err, stdout, stderr))
         ELSE Settle(promise, "resolved", ExecSuccessValue(stdout, stderr))
    /\ UNCHANGED << call, chain, proc, path, objects, returned, options, child,
                    bufferSize, error,
                    stdoutChunks, stderrChunks, listeners, handleCalls,
                    killCalls, overflowed, emitted, received >>

\* what a terminal notification carries: an exit code or a signal, never both
Terminations ==
    { << c, Null >> : c \in ExitCodes } \cup { << Null, s >> : s \in Signals }

Next ==
    \/ \E len \in 0..MaxChunkLen : StdoutData(len)
    \/ \E len \in 0..MaxChunkLen : StderrData(len)
    \/ \E err \in EmittedErrors : OnError(err)
    \/ \E t \in Terminations : OnClose(t[1], t[2])
    \/ \E t \in Terminations : OnExit(t[1], t[2])

\* promisifyChildProcess, spawn and fork
Spec == Init /\ [][Next]_vars

NextAll ==
    \/ Next
    \/ \E err \in ExecErrors \cup {NoExecError}, out \in ExecStdouts,
          errOut \in ExecStderrs : ExecCallback(err, out, errOut)

\* every entry point: promisifyChildProcess, spawn, fork, exec and execFile
SpecAll == (Init \/ InitExec) /\ [][NextAll]_vars

\* the variables of the adapter and of the handle
adapterVars ==
    << options, child, bufferSize, error, stdoutChunks, stderrChunks, listeners,
       promise, killCalls, settleCalls, overflowed, emitted, received,
       lastEvent, nEvents, path, objects, returned, handleCalls, call >>

\* the caller of spawn registers an asynchronous handler through finally at
\* once, as in  spawn(...).finally(async () => {...}) ; maxBuffer is given
InitFinally ==
    /\ Init
    /\ options.maxBufferGiven
    /\ options.killSignal = Undefined
    /\ options.encoding \in {Undefined, "utf8"}
    /\ child = [stdout |-> TRUE, stderr |-> TRUE]

\* the handler is called: the promise has settled in the way the bound method
\* waits for
FinallyInvoke ==
    /\ chain.handler = "idle"
    /\ CallsHandler(Get(objects, returned, "finally"), promise)
    /\ chain' = [chain EXCEPT !.handler = "running"]
    /\ UNCHANGED << adapterVars, proc >>

\* the asynchronous handler ends
FinallyComplete(result) ==
    /\ chain.handler = "running"
    /\ chain' = [chain EXCEPT !.handler = result]
    /\ UNCHANGED << adapterVars, proc >>

\* the promise that finally returned settles, and with it the consumer
\* chained after it
DerivedSettle ==
    LET method == Get(objects, returned, "finally") IN
    /\ chain.derived.state = "pending"
    /\ \/ /\ chain.handler \in HandlerResults
          /\ chain' = [chain EXCEPT
                         !.derived = DerivedOutcome(method, promise, chain.handler)]
       \/ /\ chain.handler = "idle"
          /\ promise.state # "pending"
          /\ ~CallsHandler(method, promise)
          /\ chain' = [chain EXCEPT !.derived = promise]
    /\ UNCHANGED << adapterVars, proc >>

NextFinally ==
    \/ Next
    \/ FinallyInvoke
    \/ \E result \in HandlerResults : FinallyComplete(result)
    \/ DerivedSettle

\* spawn or fork with a handler chained through finally
SpecFinally == InitFinally /\ [][NextFinally]_vars

\* a process that runs until it ends by itself or its caller kills it
InitLive ==
    /\ Init
    /\ options.maxBufferGiven
    /\ options.killSignal = Undefined
    /\ options.encoding = Undefined
    /\ child = [stdout |-> TRUE, stderr |-> TRUE]

\* the caller sends a signal through the kill the returned object forwards
CallerKill(sig) ==
    /\ proc.phase = "running"
    /\ Get(objects, returned, "kill") = "ChildProcess.prototype.kill"
    /\ proc' = [proc EXCEPT !.phase = "killed", !.sent = sig]
    /\ UNCHANGED << adapterVars, chain >>

\* the process ends and its handle emits 'close', once: a killed process
\* closes with the signal sent, or with the exit code it ended with before
\* the signal reached it
ProcessCloses(code, signal) ==
    /\ proc.phase # "closed"
    /\ signal # Null => proc.phase = "running" \/ signal = proc.sent
    /\ CloseDelivery(code, signal)
    /\ proc' = [proc EXCEPT !.phase = "closed", !.closedWith = signal]

NextLive ==
    \/ \E sig \in Signals : CallerKill(sig)
    \/ proc.phase # "closed" /\ \E len \in 0..MaxChunkLen : StdoutData(len)
    \/ proc.phase # "closed" /\ \E len \in 0..MaxChunkLen : StderrData(len)
    \/ proc.phase = "running" /\ \E err \in EmittedErrors : OnError(err)
    \/ \E t \in Terminations : ProcessCloses(t[1], t[2])

\* a killed process ends, and the close of an ended process is delivered
SpecLive ==
    /\ InitLive
    /\ [][NextLive]_vars
    /\ WF_vars(proc.phase = "killed" /\ \E t \in Terminations : ProcessCloses(t[1], t[2]))

\* a primitive that returned something has started a process, whose handle
\* notifies and whose completion callback is called
NextExec == call.primitive = "returns" /\ NextAll

\* exec and execFile, whatever the primitive does when it is invoked
SpecExec == (InitExec \/ InitExecNoChild) /\ [][NextExec]_vars

\* ------------------------------------ the legacy variant (src/src/index.js)
LegacyDefaultMaxBuffer == 200 * 1024

\* encodings given to the legacy variant
LegacyEncodings == {Undefined, Null, "utf8"}

LegacyOptionSet == { o \in OptionSet : o.encoding \in LegacyEncodings }

\* let error: the error object, known by its identity, or none
NoLegacyError == [id |-> "none", message |-> Undefined]

\* a getter that warns and returns null
NullOutput == [kind |-> Null, bytes |-> << >>]

\* const maxBuffer = options.maxBuffer || 200 * 1024
maxBufferLegacy(opts) ==
    IF opts.maxBufferGiven /\ opts.maxBuffer # 0
    THEN opts.maxBuffer ELSE LegacyDefaultMaxBuffer

\* killSignal ? killSignal : 'SIGTERM'
KillSignalLegacy(opts) ==
    IF opts.killSignal # Undefined /\ opts.killSignal # Null
    THEN opts.killSignal ELSE "SIGTERM"

\* joinChunks(chunks, encoding) of the legacy variant, for Buffer chunks: an
\* empty array has no first Buffer and is joined to the empty string
joinChunksLegacy(chunks, encoding) ==
    IF chunks # << >>
    THEN IF encoding # Undefined /\ encoding # Null
         THEN [kind |-> "string", bytes |-> Concat(chunks)]
         ELSE [kind |-> "buffer", bytes |-> Concat(chunks)]
    ELSE [kind |-> "string", bytes |-> << >>]

\* what defineOutputs gives stdout or stderr
LegacyOutput(opts, chunks) ==
    IF captureStdio(opts) THEN joinChunksLegacy(chunks.list, opts.encoding)
    ELSE NullOutput

\* the identity of the error object the n-th overflow creates
OverflowId(n) == "overflow" \o ToString(n)

\* the error done works with: the one already set, or a new one made from a
\* non-zero code or from a signal
LegacyFinalError(err, code, signal) ==
    IF err # NoLegacyError THEN err
    ELSE IF code # Null /\ code # "0"
    THEN [id |-> "done", message |-> "Process exited with code " \o code]
    ELSE IF signal # Null
    THEN [id |-> "done", message |-> "Process was killed with " \o signal]
    ELSE NoLegacyError

\* an object as awaiters see it
LegacyValue(id, message, code, signal, out, errOut) ==
    [id |-> id, message |-> message, code |-> code, signal |-> signal,
     stdout |-> out, stderr |-> errOut]

\* the state the legacy promisifyChildProcess(child, options) leaves behind
InitLegacy ==
    /\ path = "legacy"
    /\ call = [primitive |-> "returns", thrown |-> Undefined]
    /\ chain = [handler |-> "idle", derived |-> PendingPromise]
    /\ proc = RunningProcess
    /\ options \in LegacyOptionSet
    /\ child \in [stdout : BOOLEAN, stderr : BOOLEAN]
    /\ objects = ObjectCreate(HandleHeap(child), "returned", "child",
                              [n \in {"then", "catch"} |-> "promise." \o n])
    /\ returned = "returned"
    /\ handleCalls = {"on"}
    /\ bufferSize = 0
    /\ error = NoLegacyError
    /\ stdoutChunks = EmptyChunks
    /\ stderrChunks = EmptyChunks
    /\ listeners = [error |-> TRUE, close |-> TRUE, exit |-> TRUE,
                    stdoutData |-> captureStdio(options) /\ child.stdout,
                    stderrData |-> captureStdio(options) /\ child.stderr]
    /\ promise = PendingPromise
    /\ killCalls = << >>
    /\ settleCalls = 0
    /\ overflowed = FALSE
    /\ emitted = [stdout |-> 0, stderr |-> 0]
    /\ received = [stdout |-> << >>, stderr |-> << >>]
    /\ lastEvent = [type |-> "none", code |-> Null, signal |-> Null, err |-> NoError]
    /\ nEvents = 0

\* the legacy handler capture(chunks), applied to a chunk: the part common to
\* both streams
LegacyCapture(data) ==
    LET remaining == maxBufferLegacy(options) - bufferSize IN
    IF Len(data) > remaining
    THEN /\ error' = [id |-> OverflowId(Len(killCalls) + 1),
                      message |-> "maxBuffer size exceeded"]
         /\ killCalls' = Append(killCalls, KillSignalLegacy(options))
         /\ handleCalls' = handleCalls \cup {"kill"}
         /\ overflowed' = TRUE
         /\ bufferSize' = bufferSize + Len(Subarray(data, remaining))
    ELSE /\ bufferSize' = bufferSize + Len(data)
         /\ UNCHANGED << error, killCalls, handleCalls, overflowed >>

\* the chunk the legacy capture pushes: data.slice(0, remaining) on overflow
LegacyStoredPart(size, cap, data) ==
    IF Len(data) > cap - size THEN Subarray(data, cap - size) ELSE data

\* stdout emits a data event carrying len bytes, before the handle closes
LegacyStdoutData(len) ==
    LET data == ChunkBytes(1, emitted.stdout, len) IN
    /\ nEvents < MaxEvents
    /\ child.stdout
    /\ proc.phase # "closed"
    /\ nEvents' = nEvents + 1
    /\ emitted' = [emitted EXCEPT !.stdout = @ + len]
    /\ lastEvent' = [type |-> "stdout", code |-> Null, signal |-> Null,
                     err |-> NoError]
    /\ IF listeners.stdoutData
       THEN /\ LegacyCapture(data)
            /\ stdoutChunks' =
                 [stdoutChunks EXCEPT !.list =
                    Append(@, LegacyStoredPart(bufferSize,
                                               maxBufferLegacy(options), data))]
            /\ received' = [received EXCEPT !.stdout = @ \o data]
       ELSE UNCHANGED << bufferSize, error, killCalls, handleCalls, overflowed,
                         stdoutChunks, received >>
    /\ UNCHANGED << call, chain, proc, path, objects, returned, options, child,
                    stderrChunks, listeners, promise, settleCalls >>

\* stderr emits a data event carrying len bytes, before the handle closes
LegacyStderrData(len) ==
    LET data == ChunkBytes(-1, emitted.stderr, len) IN
    /\ nEvents < MaxEvents
    /\ child.stderr
    /\ proc.phase # "closed"
    /\ nEvents' = nEvents + 1
    /\ emitted' = [emitted EXCEPT !.stderr = @ + len]
    /\ lastEvent' = [type |-> "stderr", code |-> Null, signal |-> Null,
                     err |-> NoError]
    /\ IF listeners.stderrData
       THEN /\ LegacyCapture(data)
            /\ stderrChunks' =
                 [stderrChunks EXCEPT !.list =
                    Append(@, LegacyStoredPart(bufferSize,
                                               maxBufferLegacy(options), data))]
            /\ received' = [received EXCEPT !.stderr = @ \o data]
       ELSE UNCHANGED << bufferSize, error, killCalls, handleCalls, overflowed,
                         stderrChunks, received >>
    /\ UNCHANGED << call, chain, proc, path, objects, returned, options, child,
                    stdoutChunks, listeners, promise, settleCalls >>

\* the handle emits 'error': the listener is reject itself
LegacyOnError(err) ==
    /\ nEvents < MaxEvents
    /\ proc.phase = "running"
    /\ nEvents' = nEvents + 1
    /\ lastEvent' = [type |-> "error", code |-> Null, signal |-> Null, err |-> err]
    /\ settleCalls' = settleCalls + 1
    /\ promise' = Settle(promise, "rejected",
                         LegacyValue("emitted", err.message, err.code, Undefined,
                                     AbsentOutput, AbsentOutput))
    /\ UNCHANGED << call, chain, proc, path, objects, returned, options, child,
                    bufferSize, error, stdoutChunks, stderrChunks, listeners,
                    handleCalls, killCalls, overflowed, emitted, received >>

\* the body of the legacy done(code, signal): it sets code, signal, stdout and
\* stderr on the error object, which is the object an earlier call rejected
\* with when that call worked with the same error
LegacyDone(code, signal) ==
    LET finalError == LegacyFinalError(error, code, signal)
        out == LegacyOutput(options, stdoutChunks)
        errOut == LegacyOutput(options, stderrChunks)
        assigned == LegacyValue(finalError.id, finalError.message, code, signal,
                                out, errOut)
    IN  /\ error' = finalError
        /\ settleCalls' = settleCalls + 1
        /\ promise' =
             IF finalError # NoLegacyError
             THEN IF promise.state = "rejected" /\ promise.value.id = finalError.id
                  THEN [promise EXCEPT !.value = assigned]
                  ELSE Settle(promise, "rejected", assigned)
             ELSE Settle(promise, "resolved",
                         LegacyValue("output", Undefined, Undefined, Undefined,
                                     out, errOut))

\* the process exits and the handle emits 'exit' (code, signal), once
LegacyOnExit(code, signal) ==
    /\ nEvents < MaxEvents
    /\ proc.phase = "running"
    /\ nEvents' = nEvents + 1
    /\ lastEvent' = [type |-> "exit", code |-> code, signal |-> signal,
                     err |-> NoError]
    /\ proc' = [phase |-> "exited", sent |-> Null, closedWith |-> signal,
                code |-> code]
    /\ LegacyDone(code, signal)
    /\ UNCHANGED << call, chain, path, objects, returned, options, child,
                    bufferSize, stdoutChunks, stderrChunks, listeners,
                    handleCalls, killCalls, overflowed, emitted, received >>

\* the streams of an exited process end and the handle emits 'close' with the
\* code and signal of the exit, once
LegacyOnClose ==
    /\ nEvents < MaxEvents
    /\ proc.phase = "exited"
    /\ nEvents' = nEvents + 1
    /\ lastEvent' = [type |-> "close", code |-> proc.code,
                     signal |-> proc.closedWith, err |-> NoError]
    /\ proc' = [proc EXCEPT !.phase = "closed"]
    /\ LegacyDone(proc.code, proc.closedWith)
    /\ UNCHANGED << call, chain, path, objects, returned, options, child,
                    bufferSize, stdoutChunks, stderrChunks, listeners,
                    handleCalls, killCalls, overflowed, emitted, received >>

NextLegacy ==
    \/ \E len \in 0..MaxChunkLen : LegacyStdoutData(len)
    \/ \E len \in 0..MaxChunkLen : LegacyStderrData(len)
    \/ \E err \in EmittedErrors : LegacyOnError(err)
    \/ \E t \in Terminations : LegacyOnExit(t[1], t[2])
    \/ LegacyOnClose

\* the legacy promisifyChildProcess, spawn and fork
SpecLegacy == InitLegacy /\ [][NextLegacy]_vars

\* ---------------------------------------------------------------- claims
\* the step delivers a notification of the given type
Delivered(type) == nEvents' = nEvents + 1 /\ lastEvent'.type = type

\* the bytes captured so far for a stream
Captured(chunks) == Concat(chunks.list)

\* s is a prefix of t
IsPrefix(s, t) == Len(s) <= Len(t) /\ s = SubSeq(t, 1, Len(s))

\* C1: the promise is settled exactly once: resolve or reject is called at
\* most once, the first error or close notification settles the pending
\* promise, and once settled neither the state nor the outcome changes.
C1_SettledExactlyOnce ==
    [][ /\ settleCalls' <= 1
        /\ (promise'.state = "pending") = (settleCalls' = 0)
        /\ (promise.state = "pending" /\ (Delivered("error") \/ Delivered("close"))
              => promise'.state # "pending")
        /\ (promise.state # "pending" => promise' = promise) ]_vars

\* C1 witness: a close with code 0 was delivered after the promise had been
\* rejected for exit code 2, and the outcome still is the rejection
C1_Witness ==
    /\ promise.state = "rejected"
    /\ promise.value.message = "Process exited with code 2"
    /\ lastEvent.type = "close"
    /\ lastEvent.code = "0"
    /\ settleCalls = 1

\* C2 as stated: a close with a non-zero code delivered while pending rejects
\* with message "Process exited with code {code}", that code and signal null,
\* whatever data events preceded it.
C2_Original ==
    [][ (promise.state = "pending" /\ Delivered("close")
           /\ lastEvent'.code # Null /\ lastEvent'.code # "0")
        => /\ promise'.state = "rejected"
           /\ promise'.value.message = "Process exited with code " \o lastEvent'.code
           /\ promise'.value.code = lastEvent'.code
           /\ promise'.value.signal = Null ]_vars

\* C2 amended: a close with a non-zero code delivered while pending rejects
\* with that code and signal null; the message is "Process exited with code
\* {code}" unless an earlier data event overflowed the buffer, in which case
\* it is "maxBuffer exceeded".
C2_ExitCodeFailure ==
    [][ (promise.state = "pending" /\ Delivered("close")
           /\ lastEvent'.code # Null /\ lastEvent'.code # "0")
        => /\ promise'.state = "rejected"
           /\ promise'.value.message =
                (IF overflowed THEN "maxBuffer exceeded"
                 ELSE "Process exited with code " \o lastEvent'.code)
           /\ promise'.value.code = lastEvent'.code
           /\ promise'.value.signal = Null ]_vars

\* C2 witness: rejected for exit code 2 after data was received on both streams
C2_Witness ==
    /\ promise.state = "rejected"
    /\ promise.value.message = "Process exited with code 2"
    /\ promise.value.code = "2"
    /\ lastEvent.type = "close"
    /\ lastEvent.code = "2"
    /\ received.stdout # << >>
    /\ received.stderr # << >>

\* C3 as stated: a close with a signal and code null delivered while pending
\* rejects with message "Process was killed with {signal}", code null and that
\* signal, whatever data events preceded it.
C3_Original ==
    [][ (promise.state = "pending" /\ Delivered("close")
           /\ lastEvent'.code = Null /\ lastEvent'.signal # Null)
        => /\ promise'.state = "rejected"
           /\ promise'.value.message = "Process was killed with " \o lastEvent'.signal
           /\ promise'.value.code = Null
           /\ promise'.value.signal = lastEvent'.signal ]_vars

\* C3 amended: a close with a signal and code null delivered while pending
\* rejects with code null and that signal; the message is "Process was killed
\* with {signal}" unless an earlier data event overflowed the buffer, in which
\* case it is "maxBuffer exceeded".
C3_SignalFailure ==
    [][ (promise.state = "pending" /\ Delivered("close")
           /\ lastEvent'.code = Null /\ lastEvent'.signal # Null)
        => /\ promise'.state = "rejected"
           /\ promise'.value.message =
                (IF overflowed THEN "maxBuffer exceeded"
                 ELSE "Process was killed with " \o lastEvent'.signal)
           /\ promise'.value.code = Null
           /\ promise'.value.signal = lastEvent'.signal
           /\ promise'.value.killed ]_vars

\* C3 witness: rejected for SIGINT after data was received on both streams
C3_Witness ==
    /\ promise.state = "rejected"
    /\ promise.value.message = "Process was killed with SIGINT"
    /\ promise.value.signal = "SIGINT"
    /\ promise.value.code = Null
    /\ lastEvent.type = "close"
    /\ lastEvent.signal = "SIGINT"
    /\ received.stdout # << >>
    /\ received.stderr # << >>

\* C4 as stated: a close with code 0 and no signal delivered while pending
\* resolves the promise, for every sequence of data events that preceded it.
C4_Original ==
    [][ (promise.state = "pending" /\ Delivered("close")
           /\ lastEvent'.code = "0" /\ lastEvent'.signal = Null)
        => promise'.state = "resolved" ]_vars

\* C4 amended: a close with code 0 and no signal delivered while pending
\* resolves the promise with a Success outcome provided no earlier data event
\* overflowed the buffer; after an overflow the same close rejects.
C4_CleanExitSuccess ==
    [][ (promise.state = "pending" /\ Delivered("close")
           /\ lastEvent'.code = "0" /\ lastEvent'.signal = Null)
        => /\ promise'.state = (IF overflowed THEN "rejected" ELSE "resolved")
           /\ (~overflowed =>
                 /\ promise'.value.code = "0"
                 /\ promise'.value.signal = Null
                 /\ promise'.value.killed = FALSE) ]_vars

\* C4 witness: resolved on close(0, null) after data was received
C4_Witness ==
    /\ promise.state = "resolved"
    /\ lastEvent.type = "close"
    /\ lastEvent.code = "0"
    /\ settleCalls = 1
    /\ received.stdout # << >>
    /\ ~overflowed

\* the kind of value joinChunks yields for a captured stream
CapturedKind ==
    IF options.encoding \in {Undefined, Null, "buffer"} THEN "buffer" ELSE "string"

\* C5: every Failure outcome carries the stdout and stderr a Success outcome
\* would carry for the same configuration and the same data events: absent
\* exactly when the stream is not captured, of the configured kind, a prefix
\* of the bytes received, and all the bytes received when nothing overflowed.
C5_FailureKeepsOutput ==
    promise.state = "rejected" =>
        LET v == promise.value
            s == SuccessValue("0", Null,
                              joinChunks(stdoutChunks, options.encoding),
                              joinChunks(stderrChunks, options.encoding))
        IN /\ v.stdout = s.stdout
           /\ v.stderr = s.stderr
           /\ v.stdout.kind = (IF captureStdio(options) /\ child.stdout
                               THEN CapturedKind ELSE Undefined)
           /\ v.stderr.kind = (IF captureStdio(options) /\ child.stderr
                               THEN CapturedKind ELSE Undefined)
           /\ IsPrefix(v.stdout.bytes, received.stdout)
           /\ IsPrefix(v.stderr.bytes, received.stderr)
           /\ (~overflowed => /\ v.stdout.bytes = received.stdout
                              /\ v.stderr.bytes = received.stderr)

\* C5 witness: a rejection that carries captured bytes of both streams
C5_Witness ==
    /\ promise.state = "rejected"
    /\ promise.value.stdout.bytes # << >>
    /\ promise.value.stderr.bytes # << >>

\* C6: with capture enabled, bufferSize never exceeds maxBuffer and the bytes
\* captured for stdout plus those captured for stderr never exceed maxBuffer.
C6_BufferBounded ==
    captureStdio(options) =>
        /\ bufferSize <= maxBuffer(options)
        /\ Len(Captured(stdoutChunks)) + Len(Captured(stderrChunks))
             <= maxBuffer(options)

\* C6 witness: both streams have captured bytes and a chunk has overflowed
C6_Witness ==
    /\ overflowed
    /\ Captured(stdoutChunks) # << >>
    /\ Captured(stderrChunks) # << >>
    /\ bufferSize = maxBuffer(options)

\* C7 as stated: the cap applies per stream, so the bytes captured for a
\* stream depend only on what that stream has delivered: min(cap, received).
C7_Original ==
    captureStdio(options) =>
        /\ (child.stdout => Len(Captured(stdoutChunks))
                              = Min(maxBuffer(options), Len(received.stdout)))
        /\ (child.stderr => Len(Captured(stderrChunks))
                              = Min(maxBuffer(options), Len(received.stderr)))

\* C7 amended: the cap is one budget shared by stdout and stderr: the single
\* running total bufferSize counts the bytes captured from both streams, and a
\* data event on either stream stores min(chunk length, maxBuffer minus the
\* bytes already captured from both streams) bytes.
C7_SharedBudget ==
    [][ LET total == Len(Captured(stdoutChunks)) + Len(Captured(stderrChunks))
            left == Max(0, maxBuffer(options) - total)
        IN /\ bufferSize = total
           /\ (Delivered("stdout") /\ listeners.stdoutData =>
                 /\ Len(Captured(stdoutChunks')) = Len(Captured(stdoutChunks))
                      + Min(left, emitted'.stdout - emitted.stdout)
                 /\ bufferSize' = bufferSize
                      + Min(left, emitted'.stdout - emitted.stdout))
           /\ (Delivered("stderr") /\ listeners.stderrData =>
                 /\ Len(Captured(stderrChunks')) = Len(Captured(stderrChunks))
                      + Min(left, emitted'.stderr - emitted.stderr)
                 /\ bufferSize' = bufferSize
                      + Min(left, emitted'.stderr - emitted.stderr)) ]_vars

\* C7 witness: stdout delivered bytes while below its own cap, yet captured
\* fewer because stderr had used the budget
C7_Witness ==
    /\ captureStdio(options)
    /\ Len(received.stdout) <= maxBuffer(options)
    /\ Len(Captured(stdoutChunks)) < Len(received.stdout)
    /\ Captured(stderrChunks) # << >>

\* C8 as stated: a stream whose chunks have cumulative length greater than
\* maxBuffer has a captured value of length exactly maxBuffer in the outcome.
C8_Original ==
    (promise.state # "pending" /\ captureStdio(options)) =>
        /\ (child.stdout /\ Len(received.stdout) > maxBuffer(options)
              => Len(promise.value.stdout.bytes) = maxBuffer(options))
        /\ (child.stderr /\ Len(received.stderr) > maxBuffer(options)
              => Len(promise.value.stderr.bytes) = maxBuffer(options))

\* C8 amended: when the chunks received on stdout and stderr together have
\* cumulative length greater than maxBuffer, the values captured for stdout
\* and stderr in the settled outcome have combined length exactly maxBuffer
\* (the crossing chunk is truncated to the remaining bytes); a stream whose
\* own chunks exceed maxBuffer has length exactly maxBuffer when the other
\* stream delivered no byte.
C8_TruncationExact ==
    (promise.state # "pending" /\ captureStdio(options)) =>
        LET out == promise.value.stdout.bytes
            err == promise.value.stderr.bytes
        IN /\ (Len(received.stdout) + Len(received.stderr) > maxBuffer(options)
                 => Len(out) + Len(err) = maxBuffer(options))
           /\ (Len(received.stdout) > maxBuffer(options) /\ received.stderr = << >>
                 => out = SubSeq(received.stdout, 1, maxBuffer(options)))
           /\ (Len(received.stderr) > maxBuffer(options) /\ received.stdout = << >>
                 => err = SubSeq(received.stderr, 1, maxBuffer(options)))

\* C8 witness: a chunk of two bytes crossed the cap and its first byte is kept
C8_Witness ==
    /\ promise.state # "pending"
    /\ maxBuffer(options) = 2
    /\ stdoutChunks.present
    /\ stdoutChunks.list = << << 1 >>, << 2 >> >>
    /\ received.stdout = << 1, 2, 3 >>

\* C9 as stated: over the life of an adapter child.kill is requested exactly
\* once on overflow, and no later data event requests it again.
C9_Original ==
    /\ Len(killCalls) <= 1
    /\ (overflowed => Len(killCalls) = 1)

\* C9 amended: child.kill is requested by the chunk that crosses the cap and
\* again by every later data event, on either stream, whose chunk is longer
\* than the remaining budget (every later non-empty chunk) until settlement;
\* it is requested at least once after an overflow and never after settlement.
C9_KillOnEveryOverflow ==
    [][ LET left == Max(0, maxBuffer(options) - bufferSize)
            n == IF Delivered("stdout") THEN emitted'.stdout - emitted.stdout
                 ELSE emitted'.stderr - emitted.stderr
            heard == \/ Delivered("stdout") /\ listeners.stdoutData
                     \/ Delivered("stderr") /\ listeners.stderrData
        IN /\ (heard /\ n > left => Len(killCalls') = Len(killCalls) + 1)
           /\ (~(heard /\ n > left) => killCalls' = killCalls)
           /\ (overflowed' = (Len(killCalls') >= 1))
           /\ (promise.state # "pending" => killCalls' = killCalls) ]_vars

\* C9 witness: the adapter has requested termination twice before settling
C9_Witness ==
    /\ Len(killCalls) = 2
    /\ promise.state = "pending"

\* C10: once a data event has exceeded the remaining budget the promise never
\* resolves: any settlement, whatever code and signal the close carries, is a
\* rejection.
C10_OverflowNeverSucceeds ==
    overflowed => promise.state \in {"pending", "rejected"}

\* C10 witness: after an overflow a close with code 0 and no signal rejected
C10_Witness ==
    /\ overflowed
    /\ promise.state = "rejected"
    /\ promise.value.code = "0"
    /\ promise.value.signal = Null
    /\ lastEvent.type = "close"

\* the step hands len bytes (HeardLen) to a registered capture handler
HeardData ==
    \/ Delivered("stdout") /\ listeners.stdoutData
    \/ Delivered("stderr") /\ listeners.stderrData

\* the length of the chunk the step delivers
HeardLen ==
    (emitted'.stdout - emitted.stdout) + (emitted'.stderr - emitted.stderr)

\* C11: every signal the adapter passes to child.kill is the configured
\* killSignal when one is given and SIGTERM when it is absent.
C11_KillSignal ==
    \A i \in 1..Len(killCalls) :
        killCalls[i] = (IF options.killSignal \in {Undefined, Null}
                        THEN "SIGTERM" ELSE options.killSignal)

\* C11 witness: the adapter has sent the configured signal SIGKILL
C11_Witness ==
    /\ options.killSignal = "SIGKILL"
    /\ killCalls # << >>
    /\ killCalls[1] = "SIGKILL"

\* C12: with maxBuffer = 0 capture is enabled, every non-empty chunk handed to
\* a capture handler (the first one included) requests child.kill at once,
\* zero bytes are ever captured, and the outcome's stdout and stderr are
\* present but empty for the streams of the handle.
C12_ZeroCap ==
    [][ (options.maxBufferGiven /\ options.maxBuffer = 0) =>
          /\ stdoutChunks'.present = child.stdout
          /\ stderrChunks'.present = child.stderr
          /\ Captured(stdoutChunks') = << >>
          /\ Captured(stderrChunks') = << >>
          /\ bufferSize' = 0
          /\ (HeardData /\ HeardLen > 0 =>
                /\ killCalls' = Append(killCalls, KillSignalOf(options))
                /\ overflowed')
          /\ (overflowed' = (received'.stdout \o received'.stderr # << >>))
          /\ (promise'.state # "pending" =>
                /\ (child.stdout => /\ promise'.value.stdout.kind # Undefined
                                    /\ promise'.value.stdout.bytes = << >>)
                /\ (child.stderr => /\ promise'.value.stderr.kind # Undefined
                                    /\ promise'.value.stderr.bytes = << >>)) ]_vars

\* C12 witness: maxBuffer = 0, a non-empty chunk arrived, kill was requested
\* and the outcome carries an empty stdout buffer
C12_Witness ==
    /\ options.maxBufferGiven
    /\ options.maxBuffer = 0
    /\ received.stdout # << >>
    /\ Len(killCalls) >= 1
    /\ promise.state = "rejected"
    /\ promise.value.stdout = [kind |-> "buffer", bytes |-> << >>]

\* C13: when neither encoding nor maxBuffer is given capture is disabled: no
\* data listener is attached, child.kill is never requested and the settled
\* outcome's stdout and stderr are absent, whatever the streams emitted.
C13_CaptureDisabled ==
    (options.encoding \in {Undefined, Null} /\ ~options.maxBufferGiven) =>
        /\ ~listeners.stdoutData
        /\ ~listeners.stderrData
        /\ killCalls = << >>
        /\ received = [stdout |-> << >>, stderr |-> << >>]
        /\ ~stdoutChunks.present
        /\ ~stderrChunks.present
        /\ (promise.state # "pending" =>
              /\ promise.value.stdout = AbsentOutput
              /\ promise.value.stderr = AbsentOutput)

\* C13 witness: capture disabled, both streams exist and emitted bytes, and
\* the promise resolved
C13_Witness ==
    /\ options.encoding = Undefined
    /\ ~options.maxBufferGiven
    /\ child.stdout /\ child.stderr
    /\ emitted.stdout > 0 /\ emitted.stderr > 0
    /\ promise.state = "resolved"

\* C14: in the settled outcome a stream that does not exist on the handle has
\* an absent field whatever encoding and maxBuffer are, a stream that exists
\* with capture enabled has a present field, empty when it delivered nothing,
\* and this holds for stdout and stderr independently.
C14_AbsenceVsEmptiness ==
    promise.state # "pending" =>
        /\ (~child.stdout => promise.value.stdout = AbsentOutput)
        /\ (~child.stderr => promise.value.stderr = AbsentOutput)
        /\ (promise.value.stdout.kind # Undefined)
             = (child.stdout /\ captureStdio(options))
        /\ (promise.value.stderr.kind # Undefined)
             = (child.stderr /\ captureStdio(options))
        /\ (child.stdout /\ captureStdio(options) /\ received.stdout = << >>
              => promise.value.stdout.bytes = << >>)
        /\ (child.stderr /\ captureStdio(options) /\ received.stderr = << >>
              => promise.value.stderr.bytes = << >>)

\* C14 witness: stdout does not exist (absent field) while stderr exists,
\* delivered nothing and is present and empty
C14_Witness ==
    /\ promise.state # "pending"
    /\ ~child.stdout
    /\ child.stderr
    /\ captureStdio(options)
    /\ promise.value.stdout = AbsentOutput
    /\ promise.value.stderr.kind # Undefined
    /\ promise.value.stderr.bytes = << >>

\* C15: the kind of a captured value depends on the configuration alone: a
\* string exactly when encoding is a text codec (not undefined, null or
\* 'buffer'), a Buffer otherwise; stdout and stderr have the same kind when
\* both are present, in resolutions and rejections alike.
C15_OutputKind ==
    promise.state # "pending" =>
        LET text == options.encoding \notin {Undefined, Null, "buffer"}
            out == promise.value.stdout
            err == promise.value.stderr
        IN /\ \A v \in {out, err} :
                v.kind # Undefined =>
                    /\ (v.kind = "string") = text
                    /\ (v.kind = "buffer") = ~text
           /\ (out.kind # Undefined /\ err.kind # Undefined
                 => out.kind = err.kind)

\* C15 witness: capture enabled only through encoding 'buffer' yields Buffers
C15_Witness ==
    /\ promise.state = "resolved"
    /\ options.encoding = "buffer"
    /\ ~options.maxBufferGiven
    /\ promise.value.stdout.kind = "buffer"
    /\ promise.value.stderr.kind = "buffer"
    /\ promise.value.stdout.bytes # << >>

\* C16: an error notification delivered while pending rejects at once with
\* the emitted error's message and the output captured so far, without a
\* close; a close delivered after that changes nothing.
C16_ErrorSettles ==
    [][ /\ (promise.state = "pending" /\ Delivered("error") =>
              /\ promise'.state = "rejected"
              /\ promise'.value.message = lastEvent'.err.message
              /\ promise'.value.stdout.bytes = Captured(stdoutChunks)
              /\ promise'.value.stderr.bytes = Captured(stderrChunks)
              /\ promise'.value.stdout.kind =
                   (IF stdoutChunks.present THEN CapturedKind ELSE Undefined)
              /\ promise'.value.stderr.kind =
                   (IF stderrChunks.present THEN CapturedKind ELSE Undefined))
        /\ (promise.state = "rejected" /\ promise.value.message = error.message
              /\ error \in EmittedErrors /\ Delivered("close")
              => UNCHANGED << promise, settleCalls, listeners, error >>) ]_vars

\* C16 witness: rejected by the error "channel closed" with captured output,
\* and a close was delivered afterwards
C16_Witness ==
    /\ promise.state = "rejected"
    /\ promise.value.message = "channel closed"
    /\ promise.value.stdout.bytes # << >>
    /\ lastEvent.type = "close"

\* C17 as stated: a rejection settled by an error notification keeps the code
\* the emitted error carries (the adapter adds only stdout and stderr).
C17_Original ==
    [][ (promise.state = "pending" /\ Delivered("error"))
        => promise'.value.code = lastEvent'.err.code ]_vars

\* C18 as stated: every rejection settled on a close, overflow included,
\* carries the exit-code message when the close reported a non-zero code and
\* the signal message when it reported a signal.
C18_Original ==
    [][ (promise.state = "pending" /\ Delivered("close")
           /\ promise'.state = "rejected")
        => /\ (lastEvent'.code \notin {Null, "0"} =>
                 promise'.value.message
                   = "Process exited with code " \o lastEvent'.code)
           /\ (lastEvent'.signal # Null =>
                 promise'.value.message
                   = "Process was killed with " \o lastEvent'.signal) ]_vars

\* C18 amended: a rejection settled on a close that no overflow preceded
\* carries the exit-code message for a non-zero code and the signal message
\* for a signal; a rejection settled on a close after an overflow carries the
\* message "maxBuffer exceeded" whatever the close reported.
C18_MessageByCause ==
    [][ (promise.state = "pending" /\ Delivered("close")
           /\ promise'.state = "rejected")
        => promise'.value.message =
             (IF overflowed THEN "maxBuffer exceeded"
              ELSE IF lastEvent'.signal # Null
                   THEN "Process was killed with " \o lastEvent'.signal
                   ELSE "Process exited with code " \o lastEvent'.code) ]_vars

\* C18 witness: an overflow made the adapter send SIGTERM and the close that
\* reported SIGTERM rejected with the overflow message
C18_Witness ==
    /\ promise.state = "rejected"
    /\ promise.value.message = "maxBuffer exceeded"
    /\ promise.value.signal = "SIGTERM"
    /\ killCalls = << "SIGTERM" >>
    /\ lastEvent.type = "close"

\* C19: settlement removes every listener the adapter registered, so after
\* settlement no notification changes the capture buffers, bufferSize, error
\* or the outcome, and none makes the adapter call child.kill.
C19_NoListenerAfterSettlement ==
    [][ /\ (promise'.state # "pending" =>
              listeners' = [error |-> FALSE, close |-> FALSE, exit |-> FALSE,
                            stdoutData |-> FALSE, stderrData |-> FALSE])
        /\ (promise.state # "pending" =>
              UNCHANGED << stdoutChunks, stderrChunks, bufferSize, error,
                           promise, killCalls, received, listeners >>) ]_vars

\* C19 witness: a capturing adapter settled and stdout emitted bytes after
\* that, which were not captured
C19_Witness ==
    /\ promise.state # "pending"
    /\ stdoutChunks.present
    /\ lastEvent.type = "stdout"
    /\ emitted.stdout > Len(received.stdout)
    /\ received.stdout # << >>

\* C20: the value every entry point returns is a new object whose prototype
\* is the child: it has then, catch and finally bound to the internal promise
\* as its only own properties and exposes the child's streams, pid, kill and
\* event subscription unchanged; the child itself gains no then, catch or
\* finally, is never replaced, and the adapter calls nothing on it but on,
\* removeListener and kill.
C20_ReturnedObject ==
    /\ returned # "child"
    /\ objects[returned].proto = "child"
    /\ DOMAIN objects[returned].own = PromiseMethods
    /\ \A n \in PromiseMethods :
          /\ Get(objects, returned, n) = "promise." \o n
          /\ Get(objects, "child", n) = Undefined
    /\ \A n \in HandleOwnProps \cup HandleProtoProps :
          /\ Get(objects, returned, n) = Get(objects, "child", n)
          /\ Get(objects, "child", n) # Undefined
    /\ objects["child"] = HandleHeap(child)["child"]
    /\ objects["ChildProcess.prototype"] = HandleHeap(child)["ChildProcess.prototype"]
    /\ handleCalls \subseteq {"on", "removeListener", "kill"}

\* C20 witness: an adapter that captured, overflowed, killed and settled, and
\* whose returned object still forwards the child's stdout
C20_Witness ==
    /\ promise.state # "pending"
    /\ handleCalls = {"on", "removeListener", "kill"}
    /\ Get(objects, returned, "stdout") = "child.stdout"
    /\ Get(objects, returned, "then") = "promise.then"

\* C21: on the exec / execFile path only the completion callback settles the
\* promise: a callback reporting an error rejects with that error (message,
\* code, signal and killed as reported) carrying the callback's stdout and
\* stderr; a callback reporting none resolves with code 0, signal null,
\* killed false and the callback's stdout and stderr unchanged; the adapter
\* captures nothing, counts no byte, listens to nothing and never calls kill.
C21_ExecOutcome ==
    [][ /\ (promise' # promise =>
              promise.state = "pending" /\ Delivered("callback"))
        /\ (promise.state = "pending" /\ Delivered("callback") =>
              IF lastEvent'.failed
              THEN promise' =
                     [state |-> "rejected",
                      value |-> [message |-> lastEvent'.err.message,
                                 code |-> lastEvent'.code,
                                 signal |-> lastEvent'.signal,
                                 killed |-> lastEvent'.killed,
                                 stdout |-> lastEvent'.stdout,
                                 stderr |-> lastEvent'.stderr]]
              ELSE promise' =
                     [state |-> "resolved",
                      value |-> [message |-> Undefined, code |-> "0",
                                 signal |-> Null, killed |-> FALSE,
                                 stdout |-> lastEvent'.stdout,
                                 stderr |-> lastEvent'.stderr]])
        /\ bufferSize' = 0
        /\ killCalls' = << >>
        /\ stdoutChunks' = NoChunks /\ stderrChunks' = NoChunks
        /\ received' = [stdout |-> << >>, stderr |-> << >>]
        /\ listeners' = NoListeners
        /\ handleCalls' = {} ]_vars

\* C21 witness: the child of exec wrote to stdout, which the adapter did not
\* capture, and the callback then reported a kill by SIGTERM with one byte of
\* stdout
C21_Witness ==
    /\ path = "callback"
    /\ emitted.stdout > 0
    /\ lastEvent.type = "callback"
    /\ promise.state = "rejected"
    /\ promise.value.signal = "SIGTERM"
    /\ promise.value.stdout = [kind |-> "buffer", bytes |-> << 1 >>]
    /\ bufferSize = 0

\* C22: a wrapper built by promisifyExecMethod throws only when the primitive
\* returned no child; a failure the primitive raises while it is invoked is
\* delivered through the rejection of the returned promise and is not thrown
\* by the wrapping call.
C22_Original ==
    path = "callback" =>
        /\ (call.thrown # Undefined => call.primitive = "returnsNothing")
        /\ (call.primitive = "throws" =>
              /\ call.thrown = Undefined
              /\ returned # Null
              /\ promise.state = "rejected")

\* C23: in every outcome the killed flag is true exactly when the signal
\* field is non-null, whoever sent the signal, and a success outcome has
\* killed false.
C23_KilledIffSignal ==
    promise.state # "pending" =>
        /\ promise.value.killed = (promise.value.signal # Null)
        /\ (promise.state = "resolved" => ~promise.value.killed)

\* C23 witness: the adapter killed the child on overflow, the close reported
\* SIGTERM and the failure has killed set
C23_Witness ==
    /\ killCalls # << >>
    /\ lastEvent.type = "close"
    /\ promise.state = "rejected"
    /\ promise.value.signal = "SIGTERM"
    /\ promise.value.killed

\* C24: every outcome that resolves has code 0 and signal null, and the
\* notification that resolves the promise is a close reporting code 0 and no
\* signal.
C24_SuccessShape ==
    [][ /\ (promise'.state = "resolved" =>
              promise'.value.code = "0" /\ promise'.value.signal = Null)
        /\ (promise.state = "pending" /\ promise'.state = "resolved" =>
              /\ Delivered("close")
              /\ lastEvent'.code = "0"
              /\ lastEvent'.signal = Null) ]_vars

\* C24 witness: a capturing adapter resolved on close(0) after both streams
\* delivered data
C24_Witness ==
    /\ promise.state = "resolved"
    /\ promise.value.code = "0"
    /\ promise.value.signal = Null
    /\ promise.value.stdout.bytes # << >>
    /\ promise.value.stderr.bytes # << >>

\* C25: a handler registered through finally on the returned object is
\* called only after the adapter has settled; the promise finally returned
\* settles only after the asynchronous handler has ended, and when the
\* handler ended normally it settles with the adapter's own outcome, the
\* same success value or the same rejection.
C25_FinallyOrder ==
    /\ (chain.handler # "idle" => promise.state # "pending")
    /\ (chain.derived.state # "pending" => chain.handler \in HandlerResults)
    /\ (chain.derived.state # "pending" /\ chain.handler = "fulfilled" =>
          chain.derived = promise)

\* C25 witness: the adapter rejected on a non-zero exit code with captured
\* output, the handler ended normally and the chained consumer got the same
\* rejection
C25_Witness ==
    /\ chain.handler = "fulfilled"
    /\ chain.derived.state = "rejected"
    /\ chain.derived.value.code = "2"
    /\ chain.derived.value.stdout.bytes # << >>
    /\ chain.derived = promise

\* C26: once the handle has delivered a close or an error notification the
\* promise is settled; and after the caller has sent a signal through the
\* forwarded kill while the promise was pending, the promise eventually
\* settles, and when the process closed with that signal it is rejected with
\* a failure carrying that signal.
C26_EventuallySettles ==
    /\ (lastEvent.type \in {"close", "error"}) ~> (promise.state # "pending")
    /\ \A s \in Signals :
          (proc.phase = "killed" /\ proc.sent = s /\ promise.state = "pending")
            ~> /\ promise.state # "pending"
               /\ (proc.closedWith = s =>
                     /\ promise.state = "rejected"
                     /\ promise.value.signal = s
                     /\ promise.value.killed)

\* C26 witness: both streams delivered data, the caller sent SIGINT, the
\* process closed with it and the promise rejected with that signal
C26_Witness ==
    /\ proc.phase = "closed"
    /\ proc.sent = "SIGINT"
    /\ proc.closedWith = "SIGINT"
    /\ promise.state = "rejected"
    /\ promise.value.message = "Process was killed with SIGINT"
    /\ promise.value.signal = "SIGINT"
    /\ promise.value.stdout.bytes # << >>
    /\ promise.value.stderr.bytes # << >>

\* C27: with capture enabled, before settlement the bytes captured for a
\* stream are a prefix of the bytes that stream has emitted so far, in the
\* order of emission, without gaps and without bytes of the other stream; as
\* long as no overflow has occurred they are all the bytes it has emitted.
C27_CapturedIsPrefix ==
    promise.state = "pending" =>
        /\ (stdoutChunks.present =>
              /\ received.stdout = ChunkBytes(1, 0, emitted.stdout)
              /\ IsPrefix(Captured(stdoutChunks), received.stdout)
              /\ (~overflowed => Captured(stdoutChunks) = received.stdout))
        /\ (stderrChunks.present =>
              /\ received.stderr = ChunkBytes(-1, 0, emitted.stderr)
              /\ IsPrefix(Captured(stderrChunks), received.stderr)
              /\ (~overflowed => Captured(stderrChunks) = received.stderr))

\* C27 witness: stdout delivered one byte, stderr overflowed the budget of
\* two with a chunk of two bytes, and a later stdout byte was not captured
C27_Witness ==
    /\ promise.state = "pending"
    /\ overflowed
    /\ Captured(stdoutChunks) = << 1 >>
    /\ Captured(stderrChunks) = << -1 >>
    /\ emitted.stdout = 2
    /\ emitted.stderr = 2

\* C28 as stated: after an overflow a chunk that arrives on either stream is
\* dropped silently: it adds no byte to either buffer, leaves the byte count
\* alone and has no other effect on the adapter or on the handle.
C28_Original ==
    [][ overflowed /\ HeardData =>
          /\ Captured(stdoutChunks') = Captured(stdoutChunks)
          /\ Captured(stderrChunks') = Captured(stderrChunks)
          /\ UNCHANGED << bufferSize, error, killCalls, handleCalls, listeners,
                          promise >> ]_vars

\* C28 amended: after an overflow a chunk that arrives on either stream before
\* settlement adds no byte to either buffer and leaves the byte count, which
\* equals the cap, alone; but every such non-empty chunk makes the adapter
\* call child.kill again with the kill signal and set the overflow error
\* again, and only an empty chunk has no effect.
C28_LaterChunksKillAgain ==
    [][ overflowed /\ HeardData =>
          /\ Captured(stdoutChunks') = Captured(stdoutChunks)
          /\ Captured(stderrChunks') = Captured(stderrChunks)
          /\ bufferSize = Max(bufferSize, maxBuffer(options))
          /\ UNCHANGED << bufferSize, listeners, promise >>
          /\ error'.message = "maxBuffer exceeded"
          /\ IF HeardLen > 0
             THEN killCalls' = Append(killCalls, KillSignalOf(options))
             ELSE killCalls' = killCalls ]_vars

\* C28 witness: after stdout overflowed, a stderr chunk arrived before
\* settlement: none of its bytes was captured and child.kill was called a
\* second time
C28_Witness ==
    /\ promise.state = "pending"
    /\ overflowed
    /\ lastEvent.type = "stderr"
    /\ received.stderr # << >>
    /\ Captured(stderrChunks) = << >>
    /\ Captured(stdoutChunks) # << >>
    /\ Len(killCalls) = 2

\* C29: the promise is settled only by the handling of an error or a close
\* notification: no data event, overflowing or not, and no exit notification
\* settles it, so after an overflow it stays pending until the handle closes
\* or errors; and the outcome of a close holds what every data event
\* delivered before it left in the buffers, all of it up to the cap.
C29_SettledOnlyByErrorOrClose ==
    [][ /\ (promise' # promise =>
              /\ promise.state = "pending"
              /\ Delivered("error") \/ Delivered("close"))
        /\ (Delivered("stdout") \/ Delivered("stderr") \/ Delivered("exit") =>
              promise' = promise)
        /\ (overflowed' /\ promise.state = "pending" /\ promise'.state # "pending" =>
              Delivered("error") \/ Delivered("close"))
        /\ (promise.state = "pending" /\ Delivered("close") =>
              /\ promise'.state # "pending"
              /\ promise'.value.stdout.bytes = Captured(stdoutChunks)
              /\ promise'.value.stderr.bytes = Captured(stderrChunks)
              /\ IsPrefix(promise'.value.stdout.bytes, received.stdout)
              /\ IsPrefix(promise'.value.stderr.bytes, received.stderr)
              /\ Len(promise'.value.stdout.bytes) + Len(promise'.value.stderr.bytes)
                   = Min(maxBuffer(options),
                         Len(received.stdout) + Len(received.stderr))) ]_vars

\* C29 witness: a data event overflowed, the handle then emitted exit, and the
\* promise is still pending with its close listener in place
C29_Witness ==
    /\ overflowed
    /\ killCalls # << >>
    /\ lastEvent.type = "exit"
    /\ promise.state = "pending"
    /\ listeners.close

\* C30: the adapter calls child.kill only in a data handler whose chunk is
\* longer than the remaining budget: as long as the bytes emitted on stdout
\* and stderr together do not exceed maxBuffer, and whenever capture is
\* disabled, child.kill has not been called, and neither an error nor a close
\* notification makes the adapter call it.
C30_KillOnlyOnOverflow ==
    [][ /\ (killCalls' # killCalls =>
              /\ captureStdio(options)
              /\ HeardData
              /\ HeardLen > Max(0, maxBuffer(options) - bufferSize))
        /\ (emitted'.stdout + emitted'.stderr <= maxBuffer(options) =>
              killCalls' = << >>)
        /\ (~captureStdio(options) => killCalls' = << >>)
        /\ (Delivered("error") \/ Delivered("close") \/ Delivered("exit") =>
              killCalls' = killCalls) ]_vars

\* C30 witness: both streams delivered data that fills the budget of two
\* exactly, the handle then emitted error, and child.kill was never called
C30_Witness ==
    /\ captureStdio(options)
    /\ maxBuffer(options) = 2
    /\ received.stdout # << >>
    /\ received.stderr # << >>
    /\ bufferSize = 2
    /\ lastEvent.type = "error"
    /\ promise.state = "rejected"
    /\ killCalls = << >>
    /\ "kill" \notin handleCalls

\* C31: filling the buffer exactly is not an overflow: while the bytes handed
\* to the capture handlers add up to at most maxBuffer, its exact value
\* included, no kill is requested, no overflow error is set and every chunk
\* is stored whole; and when they add up to maxBuffer exactly, a close with
\* code 0 and no signal resolves with all of them.
C31_ExactFillIsNotOverflow ==
    [][ LET total == Len(received'.stdout) + Len(received'.stderr) IN
        /\ (captureStdio(options) /\ total <= maxBuffer(options) =>
              /\ killCalls' = << >>
              /\ ~overflowed'
              /\ error'.message # "maxBuffer exceeded"
              /\ bufferSize' = total
              /\ Captured(stdoutChunks') = received'.stdout
              /\ Captured(stderrChunks') = received'.stderr)
        /\ (/\ captureStdio(options)
            /\ total = maxBuffer(options)
            /\ promise.state = "pending"
            /\ Delivered("close")
            /\ lastEvent'.code = "0" /\ lastEvent'.signal = Null
            => /\ promise'.state = "resolved"
               /\ promise'.value.stdout.bytes = received.stdout
               /\ promise'.value.stderr.bytes = received.stderr) ]_vars

\* C31 witness: one byte of stdout and one of stderr filled the budget of two
\* exactly, and the close with code 0 resolved with both
C31_Witness ==
    /\ maxBuffer(options) = 2
    /\ bufferSize = 2
    /\ promise.state = "resolved"
    /\ promise.value.stdout.bytes = << 1 >>
    /\ promise.value.stderr.bytes = << -1 >>
    /\ killCalls = << >>

\* C32: while the bytes emitted on stdout and stderr together do not exceed
\* maxBuffer, the outcome a close or an error notification settles is
\* determined by the bytes each stream has emitted, taken stream by stream,
\* and by that notification alone: it is the same for every interleaving of
\* the stdout data events with the stderr data events.
C32_InterleavingIndependent ==
    [][ LET out == joinChunks([present |-> captureStdio(options) /\ child.stdout,
                               list |-> << ChunkBytes(1, 0, emitted.stdout) >>],
                              options.encoding)
            errOut == joinChunks([present |-> captureStdio(options) /\ child.stderr,
                                  list |-> << ChunkBytes(-1, 0, emitted.stderr) >>],
                                 options.encoding)
            code == lastEvent'.code
            signal == lastEvent'.signal
        IN  /\ promise.state = "pending"
            /\ captureStdio(options)
            /\ emitted.stdout + emitted.stderr <= maxBuffer(options)
            /\ Delivered("close") \/ Delivered("error")
            => promise' =
                 IF Delivered("error")
                 THEN [state |-> "rejected",
                       value |-> FailureValue(lastEvent'.err, Null, Null, out, errOut)]
                 ELSE IF (code # Null /\ code # "0") \/ signal # Null
                 THEN [state |-> "rejected",
                       value |-> FailureValue(NoError, code, signal, out, errOut)]
                 ELSE [state |-> "resolved",
                       value |-> SuccessValue(code, signal, out, errOut)] ]_vars

\* C32 witness: stdout and stderr each delivered one byte within the budget of
\* two and the close reported exit code 2
C32_Witness ==
    /\ maxBuffer(options) = 2
    /\ emitted = [stdout |-> 1, stderr |-> 1]
    /\ lastEvent.type = "close"
    /\ promise.state = "rejected"
    /\ promise.value.code = "2"
    /\ promise.value.stdout.bytes = << 1 >>
    /\ promise.value.stderr.bytes = << -1 >>

\* C33: every rejection of promisifyChildProcess, whether it follows an error
\* notification, a non-zero exit code, a signal or an overflow, is an error
\* that has code, signal, killed, stdout and stderr as own properties, and
\* isChildProcessError accepts it.
C33_RejectionShape ==
    promise.state = "rejected" =>
        /\ {"code", "signal", "killed", "stdout", "stderr"} \subseteq promise.value.own
        /\ isChildProcessError(TRUE, promise.value.own)

\* C33 witness: an error notification that carries no code of its own
\* rejected an adapter that captures nothing
C33_Witness ==
    /\ ~captureStdio(options)
    /\ promise.state = "rejected"
    /\ promise.value.message = "channel closed"
    /\ promise.value.code = Null
    /\ promise.value.stdout = AbsentOutput
    /\ "code" \in promise.value.own

\* C34: the legacy variant settles on the first of exit and close and
\* discards the second: once the promise is settled, the value its awaiters
\* observe, the code, signal, stdout and stderr of a rejection included, never
\* changes, whatever data arrives between exit and close.
C34_Original ==
    [][ promise.state # "pending" => promise' = promise ]_vars

\* C35: in the legacy variant maxBuffer = 0 enables capture, and the first
\* non-empty chunk a capture handler receives overflows at once: the adapter
\* calls child.kill and no byte of the chunk is captured.
C35_Original ==
    [][ options.maxBufferGiven /\ options.maxBuffer = 0 =>
          /\ captureStdio(options)
          /\ (HeardData /\ HeardLen > 0 =>
                /\ overflowed'
                /\ Len(killCalls') = Len(killCalls) + 1
                /\ bufferSize' = 0
                /\ Captured(stdoutChunks') = << >>
                /\ Captured(stderrChunks') = << >>) ]_vars

\* C36: in the legacy variant the stdout or stderr field of an outcome done
\* produced is absent, null or undefined, when the handle has no such stream,
\* whether or not encoding or maxBuffer is given.
C36_Original ==
    promise.state # "pending" /\ promise.value.id # "emitted" =>
        /\ (~child.stdout => promise.value.stdout.kind \in {Null, Undefined})
        /\ (~child.stderr => promise.value.stderr.kind \in {Null, Undefined})

====
